---- MODULE Spec2Model ----
(***************************************************************************)
(* External-Convertor (src/main.rs): a linear pipeline                     *)
(*   check_url -> fetch_subscription -> save_config -> make_external_config*)
(* driven by main.  Strings that the code inspects character by character  *)
(* (the subscription URL) are sequences of one-character strings; strings  *)
(* that are only copied or concatenated are TLA+ strings.                  *)
(***************************************************************************)
EXTENDS Integers, Sequences, FiniteSets, TLC

VARIABLES
    pc,              \* position of main: the stage it is in
    cli_url,         \* Args.url, the raw --url argument
    cwd,             \* what env::current_dir returned (<<>> until it is read)
    sub_url,         \* main's sub_url: the value check_url returned
    data,            \* main's data: the mapping fetch_subscription returned
    controller_info, \* main's controller_info (ExternalController)
    external_proxy,  \* main's external_proxy: the descriptor string
    config_file,     \* config.json in the working directory
    commands,        \* the subprocesses spawned so far, in order
    stdout,          \* the lines printed to standard output, in order
    stderr,          \* the lines printed to standard error (panic messages)
    err,             \* the failure that ended the run ("" while none)
    exit_status      \* the exit status, <<>> while the process runs

vars == <<pc, cli_url, cwd, sub_url, data, controller_info, external_proxy,
          config_file, commands, stdout, stderr, err, exit_status>>

(***************************************************************************)
(* Characters                                                              *)
(***************************************************************************)
LowerSeq == <<"a","b","c","d","e","f","g","h","i","j","k","l","m",
              "n","o","p","q","r","s","t","u","v","w","x","y","z">>
UpperSeq == <<"A","B","C","D","E","F","G","H","I","J","K","L","M",
              "N","O","P","Q","R","S","T","U","V","W","X","Y","Z">>
Lower == {LowerSeq[i] : i \in DOMAIN LowerSeq}
Upper == {UpperSeq[i] : i \in DOMAIN UpperSeq}
Digit == {"0","1","2","3","4","5","6","7","8","9"}
Alpha == Lower \cup Upper
AlphaNum == Alpha \cup Digit

\* str::to_lowercase, on the ASCII range
ToLowerChar(c) ==
    IF c \in Upper
    THEN LowerSeq[CHOOSE i \in DOMAIN UpperSeq : UpperSeq[i] = c]
    ELSE c

ToLowercase(s) == [i \in DOMAIN s |-> ToLowerChar(s[i])]

\* s[from..to] as a sequence (empty when from > to)
Slice(s, from, to) == [i \in 1..(to - from + 1) |-> s[from + i - 1]]

AllIn(s, from, to, class) == \A i \in from..to : s[i] \in class

StartsWith(s, p) == Len(s) >= Len(p) /\ Slice(s, 1, Len(p)) = p

(***************************************************************************)
(* Url::parse (url crate), as check_url uses it: the scheme, whether the   *)
(* parse succeeds, and whether a host is present.                          *)
(***************************************************************************)
SchemeChars == AlphaNum \cup {"+", "-", "."}

\* position of the ":" ending the scheme, 0 when the input has no scheme
SchemeEnd(s) ==
    IF Len(s) = 0 \/ s[1] \notin Alpha THEN 0
    ELSE LET stops == {i \in 1..Len(s) : s[i] \notin SchemeChars}
         IN  IF stops = {} THEN 0
             ELSE LET i == CHOOSE j \in stops : \A k \in stops : j <= k
                  IN  IF s[i] = ":" THEN i ELSE 0

\* schemes the parser treats as special and that require a host
SpecialNotFile == { <<"h","t","t","p">>, <<"h","t","t","p","s">>,
                    <<"f","t","p">>, <<"w","s">>, <<"w","s","s">> }

AuthorityEnd == {"/", "\\", "?", "#"}
HostChars == AlphaNum \cup {"-", ".", "_"}

\* number of leading slashes (either kind) of s from position from
RECURSIVE CountSlashes(_, _)
CountSlashes(s, from) ==
    IF from <= Len(s) /\ s[from] \in {"/", "\\"}
    THEN 1 + CountSlashes(s, from + 1)
    ELSE 0

\* the authority starting at position from: up to the first / \ ? # or the end
AuthorityOf(s, from) ==
    LET stops == {i \in from..Len(s) : s[i] \in AuthorityEnd}
        last  == IF stops = {} THEN Len(s)
                 ELSE (CHOOSE j \in stops : \A k \in stops : j <= k) - 1
    IN  Slice(s, from, last)

\* the authority without its userinfo (everything up to the last "@")
AfterUserinfo(a) ==
    LET ats == {i \in 1..Len(a) : a[i] = "@"}
    IN  IF ats = {} THEN a
        ELSE Slice(a, (CHOOSE j \in ats : \A k \in ats : j >= k) + 1, Len(a))

\* host and port text of an authority without userinfo
HostOf(hp) ==
    LET colons == {i \in 1..Len(hp) : hp[i] = ":"}
    IN  IF colons = {} THEN hp
        ELSE Slice(hp, 1, (CHOOSE j \in colons : \A k \in colons : j <= k) - 1)

PortOf(hp) == Slice(hp, Len(HostOf(hp)) + 2, Len(hp))

ParseErr(e) == [ok |-> FALSE, error |-> e, scheme |-> <<>>, has_host |-> FALSE]
ParseOk(sch, h) == [ok |-> TRUE, error |-> "", scheme |-> sch, has_host |-> h]

\* host and port of the authority at position from; special schemes refuse
\* an empty host
ParseAuthority(s, sch, from, special) ==
    LET hp   == AfterUserinfo(AuthorityOf(s, from))
        host == HostOf(hp)
        port == PortOf(hp)
    IN  IF special /\ Len(host) = 0 THEN ParseErr("empty host")
        ELSE IF ~AllIn(host, 1, Len(host), HostChars)
        THEN ParseErr("invalid domain character")
        ELSE IF ~AllIn(port, 1, Len(port), Digit)
        THEN ParseErr("invalid port number")
        ELSE ParseOk(sch, Len(host) > 0)

UrlParse(s) ==
    LET e   == SchemeEnd(s)
        sch == ToLowercase(Slice(s, 1, e - 1))
    IN  IF e = 0 THEN ParseErr("relative URL without a base")
        ELSE IF sch \in SpecialNotFile
        THEN ParseAuthority(s, sch, e + 1 + CountSlashes(s, e + 1), TRUE)
        ELSE IF e + 2 <= Len(s) /\ s[e + 1] = "/" /\ s[e + 2] = "/"
        THEN ParseAuthority(s, sch, e + 3, FALSE)
        ELSE ParseOk(sch, FALSE)

(***************************************************************************)
(* check_url                                                               *)
(***************************************************************************)
HostPartMin == 2
HostPartMax == 256
TldMin == 2
TldMax == 6

\* [-a-zA-Z0-9@:%._\+~#=]
HostPartClass == AlphaNum \cup {"-", "@", ":", "%", ".", "_", "+", "~", "#", "="}
\* [-a-zA-Z0-9@:%_\+.~#?&//=]
TailClass == AlphaNum \cup {"-", "@", ":", "%", "_", "+", ".", "~", "#", "?", "&", "/", "="}
\* \w, for the word boundary \b
WordChars == AlphaNum \cup {"_"}

HttpPrefix == <<"h","t","t","p",":","/","/">>
HttpsPrefix == <<"h","t","t","p","s",":","/","/">>

\* ^https?://[-a-zA-Z0-9@:%._\+~#=]{2,256}\.[a-z]{2,6}\b([-a-zA-Z0-9@:%_\+.~#?&//=]*)$
UrlRegexIsMatch(s) ==
    LET p == IF StartsWith(s, HttpPrefix) THEN Len(HttpPrefix)
             ELSE IF StartsWith(s, HttpsPrefix) THEN Len(HttpsPrefix)
             ELSE 0
    IN  /\ p > 0
        /\ \E d \in (p + HostPartMin + 1)..Len(s) : \E k \in TldMin..TldMax :
              /\ d - 1 - p <= HostPartMax
              /\ AllIn(s, p + 1, d - 1, HostPartClass)
              /\ s[d] = "."
              /\ d + k <= Len(s)
              /\ AllIn(s, d + 1, d + k, Lower)
              /\ (d + k = Len(s) \/ s[d + k + 1] \notin WordChars)
              /\ AllIn(s, d + k + 1, Len(s), TailClass)

Http == <<"h","t","t","p">>
Https == <<"h","t","t","p","s">>

UrlOk(v) == [ok |-> TRUE, value |-> v, kind |-> "", message |-> ""]
UrlErr(k, m) == [ok |-> FALSE, value |-> <<>>, kind |-> k, message |-> m]

\* check_url with the host check placed before the scheme check
check_url_host_first(raw) ==
    LET s == ToLowercase(raw)
        parsed_url == UrlParse(s)
    IN  IF ~parsed_url.ok
        THEN UrlErr("InvalidUrl", "URL parse failed: " \o parsed_url.error)
        ELSE IF ~parsed_url.has_host
        THEN UrlErr("MissingHost", "Invalid url without host name.")
        ELSE IF parsed_url.scheme \notin {Http, Https}
        THEN UrlErr("UnsupportedScheme", "Only support http or https.")
        ELSE IF ~UrlRegexIsMatch(s)
        THEN UrlErr("MalformedUrl", "Invalid url, please check again.")
        ELSE UrlOk(s)

check_url(raw) ==
    LET s == ToLowercase(raw)
        parsed_url == UrlParse(s)
    IN  IF ~parsed_url.ok
        THEN UrlErr("InvalidUrl", "URL parse failed: " \o parsed_url.error)
        ELSE IF parsed_url.scheme \notin {Http, Https}
        THEN UrlErr("UnsupportedScheme", "Only support http or https.")
        ELSE IF ~parsed_url.has_host
        THEN UrlErr("MissingHost", "Invalid url without host name.")
        ELSE IF ~UrlRegexIsMatch(s)
        THEN UrlErr("MalformedUrl", "Invalid url, please check again.")
        ELSE UrlOk(s)

(***************************************************************************)
(* serde_json::Value.  An object is a function from its keys to values.    *)
(***************************************************************************)
JNull == [t |-> "null"]
JNum(n) == [t |-> "num", n |-> n]
JStr(s) == [t |-> "str", s |-> s]
JArr(a) == [t |-> "arr", a |-> a]
JObj(o) == [t |-> "obj", o |-> o]

DigitStr == <<"0","1","2","3","4","5","6","7","8","9">>

RECURSIVE NatToString(_)
NatToString(n) ==
    IF n < 10 THEN DigitStr[n + 1]
    ELSE NatToString(n \div 10) \o DigitStr[(n % 10) + 1]

\* Value's Display: the compact JSON text of a scalar (a string keeps its quotes)
ValueToString(v) ==
    CASE v.t = "num"  -> NatToString(v.n)
      [] v.t = "str"  -> "\"" \o v.s \o "\""
      [] v.t = "null" -> "null"

(***************************************************************************)
(* save_config                                                             *)
(***************************************************************************)
ExternalControllerDefault == [address |-> "", port |-> ""]

HasKey(m, k) == k \in DOMAIN m

LoopInit ==
    [panic |-> "", controller_info |-> ExternalControllerDefault, new_inbound |-> <<>>]

\* the body of the for loop with the controller written only by the first match
InboundStepFirstWins(acc, inbound) ==
    IF acc.panic # "" THEN acc
    ELSE IF inbound.t # "obj"
    THEN [acc EXCEPT !.panic = "from_value: not a map"]
    ELSE LET inbound_map == inbound.o IN
         IF ~HasKey(inbound_map, "type") THEN acc
         ELSE IF inbound_map["type"].t # "str"
         THEN [acc EXCEPT !.panic = "type: as_str on a non-string"]
         ELSE IF inbound_map["type"].s # "mixed" THEN acc
         ELSE IF ~HasKey(inbound_map, "listen")
         THEN [acc EXCEPT !.panic = "listen: unwrap on None"]
         ELSE IF inbound_map["listen"].t # "str"
         THEN [acc EXCEPT !.panic = "listen: as_str on a non-string"]
         ELSE IF ~HasKey(inbound_map, "listen_port")
         THEN [acc EXCEPT !.panic = "listen_port: unwrap on None"]
         ELSE [acc EXCEPT
                 !.new_inbound = Append(@, inbound),
                 !.controller_info =
                     IF acc.new_inbound = <<>>
                     THEN [address |-> inbound_map["listen"].s,
                           port |-> ValueToString(inbound_map["listen_port"])]
                     ELSE @]

\* the body of the for loop keeping every entry that has a "type"
InboundStepKeepAll(acc, inbound) ==
    IF acc.panic # "" THEN acc
    ELSE IF inbound.t # "obj"
    THEN [acc EXCEPT !.panic = "from_value: not a map"]
    ELSE LET inbound_map == inbound.o IN
         IF ~HasKey(inbound_map, "type") THEN acc
         ELSE IF inbound_map["type"].t # "str"
         THEN [acc EXCEPT !.panic = "type: as_str on a non-string"]
         ELSE IF inbound_map["type"].s # "mixed"
         THEN [acc EXCEPT !.new_inbound = Append(@, inbound)]
         ELSE IF ~HasKey(inbound_map, "listen")
         THEN [acc EXCEPT !.panic = "listen: unwrap on None"]
         ELSE IF inbound_map["listen"].t # "str"
         THEN [acc EXCEPT !.panic = "listen: as_str on a non-string"]
         ELSE IF ~HasKey(inbound_map, "listen_port")
         THEN [acc EXCEPT !.panic = "listen_port: unwrap on None"]
         ELSE [acc EXCEPT
                 !.new_inbound = Append(@, inbound),
                 !.controller_info =
                     [address |-> inbound_map["listen"].s,
                      port |-> ValueToString(inbound_map["listen_port"])]]

\* the body of the for loop skipping a "mixed" entry that has no "listen"
InboundStepSkipsNoListen(acc, inbound) ==
    IF acc.panic # "" THEN acc
    ELSE IF inbound.t # "obj"
    THEN [acc EXCEPT !.panic = "from_value: not a map"]
    ELSE LET inbound_map == inbound.o IN
         IF ~HasKey(inbound_map, "type") THEN acc
         ELSE IF inbound_map["type"].t # "str"
         THEN [acc EXCEPT !.panic = "type: as_str on a non-string"]
         ELSE IF inbound_map["type"].s # "mixed" THEN acc
         ELSE IF ~HasKey(inbound_map, "listen") THEN acc
         ELSE IF inbound_map["listen"].t # "str"
         THEN [acc EXCEPT !.panic = "listen: as_str on a non-string"]
         ELSE IF ~HasKey(inbound_map, "listen_port")
         THEN [acc EXCEPT !.panic = "listen_port: unwrap on None"]
         ELSE [acc EXCEPT
                 !.new_inbound = Append(@, inbound),
                 !.controller_info =
                     [address |-> inbound_map["listen"].s,
                      port |-> ValueToString(inbound_map["listen_port"])]]

\* the body of the for loop (lines 77-97): one inbound, in array order; a
\* panic ends the loop
InboundStep(acc, inbound) ==
    IF acc.panic # "" THEN acc
    ELSE IF inbound.t # "obj"
    THEN [acc EXCEPT !.panic = "from_value: not a map"]
    ELSE LET inbound_map == inbound.o IN
         IF ~HasKey(inbound_map, "type") THEN acc
         ELSE IF inbound_map["type"].t # "str"
         THEN [acc EXCEPT !.panic = "type: as_str on a non-string"]
         ELSE IF inbound_map["type"].s # "mixed" THEN acc
         ELSE IF ~HasKey(inbound_map, "listen")
         THEN [acc EXCEPT !.panic = "listen: unwrap on None"]
         ELSE IF inbound_map["listen"].t # "str"
         THEN [acc EXCEPT !.panic = "listen: as_str on a non-string"]
         ELSE IF ~HasKey(inbound_map, "listen_port")
         THEN [acc EXCEPT !.panic = "listen_port: unwrap on None"]
         ELSE [acc EXCEPT
                 !.new_inbound = Append(@, inbound),
                 !.controller_info =
                     [address |-> inbound_map["listen"].s,
                      port |-> ValueToString(inbound_map["listen_port"])]]

RECURSIVE InboundLoop(_, _, _)
InboundLoop(arr, i, acc) ==
    IF i > Len(arr) THEN acc
    ELSE InboundLoop(arr, i + 1, InboundStep(acc, arr[i]))

\* data.insert("inbounds", v): the key is added or its value replaced
MapInsert(m, k, v) == [x \in DOMAIN m \cup {k} |-> IF x = k THEN v ELSE m[x]]

SaveErr(k, m) ==
    [outcome |-> "err", kind |-> k, message |-> m,
     controller_info |-> ExternalControllerDefault,
     output |-> <<>>, created |-> FALSE, written |-> FALSE]
SavePanic(m) ==
    [outcome |-> "panic", kind |-> "Panic", message |-> m,
     controller_info |-> ExternalControllerDefault,
     output |-> <<>>, created |-> FALSE, written |-> FALSE]
SaveOk(c, out) ==
    [outcome |-> "ok", kind |-> "", message |-> "", controller_info |-> c,
     output |-> out, created |-> TRUE, written |-> TRUE]

MissingInboundsMsg == "Can't find any inbounds in target configuration."

\* lines 75-106: the loop, the insert, the write; reached with "inbounds" present
save_config_body(d, fs) ==
    IF d["inbounds"].t # "arr" THEN SavePanic("as_array: unwrap on None")
    ELSE LET loop == InboundLoop(d["inbounds"].a, 1, LoopInit)
             out  == MapInsert(d, "inbounds", JArr(loop.new_inbound))
         IN  IF loop.panic # "" THEN SavePanic(loop.panic)
             ELSE IF fs = "create_fails"
             THEN SaveErr("FileWriteError", "File::create failed")
             ELSE IF fs = "write_fails"
             THEN [SaveErr("FileWriteError", "write_all failed") EXCEPT !.created = TRUE]
             ELSE SaveOk(loop.controller_info, out)

\* save_config taking a missing "inbounds" for an empty array
save_config_no_check(d, fs) ==
    save_config_body(IF HasKey(d, "inbounds") THEN d
                     ELSE MapInsert(d, "inbounds", JArr(<<>>)), fs)

\* save_config with the check for "inbounds" made after the file is written
save_config_check_after_write(d, fs) ==
    IF ~HasKey(d, "inbounds")
    THEN [SaveErr("MissingInbounds", MissingInboundsMsg) EXCEPT
             !.output = MapInsert(d, "inbounds", JArr(<<>>)),
             !.created = TRUE, !.written = TRUE]
    ELSE save_config_body(d, fs)

\* save_config(data); fs is what the filesystem does when asked:
\* "ok", "create_fails" (File::create errs) or "write_fails" (write_all errs)
save_config(d, fs) ==
    IF ~HasKey(d, "inbounds") THEN SaveErr("MissingInbounds", MissingInboundsMsg)
    ELSE save_config_body(d, fs)

(***************************************************************************)
(* fetch_subscription.  The response is the server's: whether the request  *)
(* could be sent, the status, and the body as JSON (or not JSON at all).   *)
(***************************************************************************)
NotJson == [t |-> "invalid"]

FetchOk(m) == [ok |-> TRUE, value |-> m, kind |-> "", message |-> ""]
FetchFail(k, m) == [ok |-> FALSE, value |-> <<>>, kind |-> k, message |-> m]

StatusSuccessMin == 200
StatusSuccessMax == 299

fetch_subscription(resp) ==
    IF ~resp.sent THEN FetchFail("FetchError", "error sending request")
    ELSE IF resp.status \in StatusSuccessMin..StatusSuccessMax
    THEN IF resp.body.t = "invalid"
         THEN FetchFail("MalformedSubscription", "error decoding response body")
         ELSE IF resp.body.t # "obj"
         THEN FetchFail("MalformedSubscription", "invalid type: expected a map")
         ELSE FetchOk(resp.body.o)
    ELSE FetchFail("FetchError",
                   "Error fetching subscription: HTTP " \o NatToString(resp.status))

(***************************************************************************)
(* make_external_config                                                    *)
(***************************************************************************)
Whitespace == {" ", "\n", "\t"}

\* the output of a command is a sequence of pieces of text; a piece of
\* white space is a piece of its own
RECURSIVE TrimStart(_)
TrimStart(s) ==
    IF s # <<>> /\ Head(s) \in Whitespace THEN TrimStart(Tail(s)) ELSE s

RECURSIVE TrimEnd(_)
TrimEnd(s) ==
    IF s # <<>> /\ s[Len(s)] \in Whitespace
    THEN TrimEnd(SubSeq(s, 1, Len(s) - 1))
    ELSE s

RECURSIVE Concat(_)
Concat(s) == IF s = <<>> THEN "" ELSE Head(s) \o Concat(Tail(s))

\* String::from_utf8_lossy(&out.stdout).trim()
TrimmedStdout(out) == Concat(TrimEnd(TrimStart(out.stdout)))

\* Path::display of an absolute path given as its components
RECURSIVE PathDisplayRest(_)
PathDisplayRest(p) ==
    IF p = <<>> THEN "" ELSE "/" \o Head(p) \o PathDisplayRest(Tail(p))

PathDisplay(p) == IF p = <<>> THEN "/" ELSE PathDisplayRest(p)

\* PathBuf::join of a relative name
PathJoin(dir, name) == Append(dir, name)

Cmd(c, out) == [cmd |-> c, success |-> out.success]

WhichCmd == "which sing-box"
BrewCmd == "brew install sing-box"

DescErr(k, m, cmds, lines) ==
    [ok |-> FALSE, kind |-> k, message |-> m, output |-> "", exec |-> "",
     dir |-> <<>>, commands |-> cmds, printed |-> lines]

\* lines 144-152 with address and local-port exchanged
DescriptorTailSwapped(output, controller, dir) ==
    output
        \o ("address = " \o controller.address \o ", ")
        \o "args = \"run\", "
        \o "args = \"-c\", "
        \o ("args = \"" \o PathDisplay(PathJoin(dir, "config.json")) \o "\", ")
        \o ("local-port = " \o controller.port)

\* lines 144-152: what is pushed after the exec field
DescriptorTail(output, controller, dir) ==
    output
        \o ("local-port = " \o controller.port \o ", ")
        \o "args = \"run\", "
        \o "args = \"-c\", "
        \o ("args = \"" \o PathDisplay(PathJoin(dir, "config.json")) \o "\", ")
        \o ("address = " \o controller.address)

\* lines 144-153, once exec has been pushed; current_dir may fail
Finish(output, exec, controller, env, cmds, lines) ==
    IF ~env.current_dir.ok
    THEN DescErr("Io", "current_dir failed", cmds, lines)
    ELSE [ok |-> TRUE, kind |-> "", message |-> "",
          output |-> DescriptorTail(output, controller, env.current_dir.path),
          exec |-> exec, dir |-> env.current_dir.path,
          commands |-> cmds, printed |-> lines]

ExecField(exec) == "exec = \"" \o exec \o "\", "

InstallFailedMsg == "Failed to install sing-box, please try: brew install sing-box."

\* make_external_config(controller); env is what the operating system does:
\* the outcome of the first which, of brew, of the second which, and of
\* current_dir.  An outcome that is not asked for is not looked at.
make_external_config(controller, env) ==
    LET output == "External = external, "
        c1 == <<Cmd(WhichCmd, env.which1)>>
    IN  IF ~env.which1.spawned
        THEN DescErr("Io", "which: spawn failed", c1, <<>>)
        ELSE IF env.which1.success
        THEN LET exec == TrimmedStdout(env.which1)
             IN  Finish(output \o ExecField(exec), exec, controller, env, c1, <<>>)
        ELSE LET l1 == <<[text |-> "sing-box not found, try install...", arg |-> ""]>>
                 c2 == Append(c1, Cmd(BrewCmd, env.brew))
             IN  IF ~env.brew.spawned
                 THEN DescErr("Io", "brew: spawn failed", c2, l1)
                 ELSE IF env.brew.success
                 THEN LET l2 == Append(l1, [text |-> "Successfully installed sing-box",
                                            arg |-> ""])
                          c3 == Append(c2, Cmd(WhichCmd, env.which2))
                      IN  IF ~env.which2.spawned
                          THEN DescErr("Io", "which: spawn failed", c3, l2)
                          ELSE LET exec == TrimmedStdout(env.which2)
                               IN  Finish(output \o ExecField(exec), exec,
                                          controller, env, c3, l2)
                 ELSE DescErr("InstallFailed", InstallFailedMsg, c2, l1)

(***************************************************************************)
(* The inputs of a run: the --url argument, config.json as the run finds   *)
(* it, the server's response, the filesystem and the operating system.     *)
(***************************************************************************)
MaxInbounds == 2

UrlSchemes ==
    { <<"h","t","t","p">>, <<"h","t","t","p","s">>, <<"H","T","T","P">>,
      <<"f","t","p">>, <<"m","a","i","l","t","o">> }
UrlSeparators == { <<":">>, <<":","/">>, <<":","/","/">> }
UrlHosts ==
    { <<>>, <<"a","b",".","i","o">>,
      <<"l","o","c","a","l","h","o","s","t">>, <<"a",".","i","o">>,
      <<"a"," ","b",".","i","o">> }
UrlTails == { <<>>, <<"/","P">> }

UrlInputs ==
    { sch \o sep \o h \o t :
        sch \in UrlSchemes, sep \in UrlSeparators, h \in UrlHosts, t \in UrlTails }
    \cup { <<"a","b",".","i","o">>, <<>> }

Absent == [state |-> "absent", content |-> <<>>]
OldFile == [state |-> "old", content |-> <<>>]

Inbounds ==
    { JObj([type |-> JStr("mixed"), listen |-> JStr("127.0.0.1"),
            listen_port |-> JNum(7890), tag |-> JStr("mixed-in")]),
      JObj([type |-> JStr("mixed"), listen |-> JStr("0.0.0.0"),
            listen_port |-> JStr("7890")]),
      JObj([type |-> JStr("tun"), tag |-> JStr("tun-in")]),
      JObj([type |-> JStr("Mixed"), listen |-> JStr("127.0.0.1"),
            listen_port |-> JNum(7890)]),
      JObj([listen |-> JStr("127.0.0.1"), listen_port |-> JNum(7890)]),
      JObj([type |-> JNum(1), listen |-> JStr("127.0.0.1"), listen_port |-> JNum(7890)]),
      JObj([type |-> JStr("mixed"), listen_port |-> JNum(7890)]),
      JObj([type |-> JStr("mixed"), listen |-> JNum(0), listen_port |-> JNum(7890)]),
      JObj([type |-> JStr("mixed"), listen |-> JStr("127.0.0.1")]),
      JStr("mixed") }

InboundArrays == UNION { [1..n -> Inbounds] : n \in 0..MaxInbounds }

EmptyMap == [k \in {} |-> JNull]
OtherKeys ==
    { EmptyMap,
      [log |-> JObj([level |-> JStr("info")]),
       outbounds |-> JArr(<<JObj([type |-> JStr("direct")])>>)] }

Documents ==
    { MapInsert(o, "inbounds", JArr(a)) : o \in OtherKeys, a \in InboundArrays }
    \cup { MapInsert(o, "inbounds", v) : o \in OtherKeys, v \in {JNull, JStr("mixed")} }
    \cup OtherKeys

Responses ==
    { [sent |-> FALSE, status |-> 0, body |-> NotJson] }
    \cup { [sent |-> TRUE, status |-> st, body |-> NotJson] : st \in {200, 404, 500} }
    \cup { [sent |-> TRUE, status |-> 200, body |-> JArr(<<>>)] }
    \cup { [sent |-> TRUE, status |-> 200, body |-> JObj(d)] : d \in Documents }

FsOutcomes == {"ok", "create_fails", "write_fails"}

SpawnFails == [spawned |-> FALSE, success |-> FALSE, stdout |-> <<>>]
ExitsNonZero == [spawned |-> TRUE, success |-> FALSE, stdout |-> <<>>]
Found(path) == [spawned |-> TRUE, success |-> TRUE, stdout |-> <<path, "\n">>]
Installed == [spawned |-> TRUE, success |-> TRUE, stdout |-> <<"installed", "\n">>]

ExecPaths == {"/usr/local/bin/sing-box", "/opt/homebrew/bin/sing-box"}
Dirs == { <<"home", "user">>, <<"tmp">> }

WhichOutcomes == {SpawnFails, ExitsNonZero} \cup {Found(p) : p \in ExecPaths}
BrewOutcomes == {SpawnFails, ExitsNonZero, Installed}
DirOutcomes ==
    { [ok |-> FALSE, path |-> <<>>] } \cup { [ok |-> TRUE, path |-> d] : d \in Dirs }

\* every way the operating system can answer; an outcome that is never asked
\* for is fixed, so that each run appears once
Envs ==
    LET all == [which1 : WhichOutcomes, brew : BrewOutcomes,
                which2 : WhichOutcomes, current_dir : DirOutcomes]
        installs(e) == e.which1 = ExitsNonZero
        relocates(e) == installs(e) /\ e.brew = Installed
        finishes(e) == \/ e.which1.success
                       \/ relocates(e) /\ e.which2.spawned
    IN  { e \in all :
            /\ ~installs(e) => e.brew = SpawnFails
            /\ ~relocates(e) => e.which2 = SpawnFails
            /\ ~finishes(e) => ~e.current_dir.ok }

(***************************************************************************)
(* main                                                                    *)
(***************************************************************************)
Init ==
    /\ pc = "Start"
    /\ cli_url \in UrlInputs
    /\ config_file \in {Absent, OldFile}
    /\ cwd = <<>>
    /\ sub_url = <<>>
    /\ data = <<>>
    /\ controller_info = <<>>
    /\ external_proxy = <<>>
    /\ commands = <<>>
    /\ stdout = <<>>
    /\ stderr = <<>>
    /\ err = ""
    /\ exit_status = <<>>

\* a printed line: its text and, for the descriptor, the descriptor
Line(t) == [text |-> t, arg |-> ""]
DescriptorBanner == "Target surge external config:\n[Proxy]\n"

ExitFailure == 1
ExitSuccess == 0

\* the arm of main with exit(0) in place of exit(1)
FailExitsZero(kind, lines) ==
    /\ pc' = "Failed"
    /\ err' = kind
    /\ stdout' = stdout \o lines
    /\ exit_status' = <<ExitSuccess>>

\* an Err arm of main: print the diagnostic, std::process::exit(1)
Fail(kind, lines) ==
    /\ pc' = "Failed"
    /\ err' = kind
    /\ stdout' = stdout \o lines
    /\ exit_status' = <<ExitFailure>>

\* Args::parse has succeeded; the client type is printed
Start ==
    /\ pc = "Start"
    /\ pc' = "Validating"
    /\ stdout' = Append(stdout, Line("Target client type is: sing-box"))
    /\ UNCHANGED <<cli_url, cwd, sub_url, data, controller_info, external_proxy,
                   config_file, commands, stderr, err, exit_status>>

CheckUrl ==
    /\ pc = "Validating"
    /\ LET r == check_url(cli_url)
       IN  IF r.ok
           THEN /\ sub_url' = <<r.value>>
                /\ pc' = "Fetching"
                /\ stdout' = Append(stdout,
                                     Line("Targe subscription url is: " \o Concat(r.value)))
                /\ UNCHANGED <<err, exit_status>>
           ELSE /\ Fail(r.kind, <<Line(r.message)>>)
                /\ UNCHANGED sub_url
    /\ UNCHANGED <<cli_url, cwd, data, controller_info, external_proxy,
                   config_file, commands, stderr>>

FetchSubscription ==
    /\ pc = "Fetching"
    /\ \E resp \in Responses :
         LET r == fetch_subscription(resp)
         IN  IF r.ok
             THEN /\ data' = <<r.value>>
                  /\ pc' = "Transforming"
                  /\ stdout' = Append(stdout, Line("Successfully fetched and parsed JSON."))
                  /\ UNCHANGED <<err, exit_status>>
             ELSE /\ Fail(r.kind, <<Line("Error: " \o r.message)>>)
                  /\ UNCHANGED data
    /\ UNCHANGED <<cli_url, cwd, sub_url, controller_info, external_proxy,
                   config_file, commands, stderr>>

SaveConfig ==
    /\ pc = "Transforming"
    /\ \E fs \in FsOutcomes :
         LET r == save_config(data[1], fs)
         IN  /\ config_file' =
                   IF r.written THEN [state |-> "written", content |-> r.output]
                   ELSE IF r.created THEN [state |-> "truncated", content |-> <<>>]
                   ELSE config_file
             /\ CASE r.outcome = "ok" ->
                       /\ controller_info' = <<r.controller_info>>
                       /\ pc' = "Describing"
                       /\ stdout' = stdout
                            \o <<Line("Conver successfully, save to: config.json"),
                                 Line("Successfully convert subscription.")>>
                       /\ UNCHANGED <<stderr, err, exit_status>>
                  [] r.outcome = "err" ->
                       /\ Fail(r.kind, <<Line("Error: " \o r.message)>>)
                       /\ UNCHANGED <<controller_info, stderr>>
                  [] r.outcome = "panic" ->
                       /\ pc' = "Failed"
                       /\ err' = r.kind
                       /\ stderr' = Append(stderr,
                                            Line("thread 'main' panicked: " \o r.message))
                       /\ exit_status' = <<101>>
                       /\ UNCHANGED <<controller_info, stdout>>
    /\ UNCHANGED <<cli_url, cwd, sub_url, data, external_proxy, commands>>

MakeExternalConfig ==
    /\ pc = "Describing"
    /\ \E env \in Envs :
         LET r == make_external_config(controller_info[1], env)
         IN  /\ commands' = commands \o r.commands
             /\ IF r.ok
                THEN /\ external_proxy' = <<r.output>>
                     /\ cwd' = <<r.dir>>
                     /\ pc' = "Done"
                     /\ stdout' = stdout \o r.printed
                          \o <<[text |-> DescriptorBanner, arg |-> r.output]>>
                     /\ exit_status' = <<ExitSuccess>>
                     /\ UNCHANGED err
                ELSE /\ Fail(r.kind, r.printed \o <<Line("Error: " \o r.message)>>)
                     /\ UNCHANGED <<external_proxy, cwd>>
    /\ UNCHANGED <<cli_url, sub_url, data, controller_info, config_file, stderr>>

Next ==
    \/ Start
    \/ CheckUrl
    \/ FetchSubscription
    \/ SaveConfig
    \/ MakeExternalConfig

Spec == Init /\ [][Next]_vars

(***************************************************************************)
(* Properties                                                              *)
(***************************************************************************)
IsMixed(e) ==
    /\ e.t = "obj"
    /\ HasKey(e.o, "type")
    /\ e.o["type"].t = "str"
    /\ e.o["type"].s = "mixed"

\* an entry with every field of interest present and of the expected type
WellFormed(e) ==
    /\ e.t = "obj"
    /\ HasKey(e.o, "type") /\ e.o["type"].t = "str"
    /\ HasKey(e.o, "listen") /\ e.o["listen"].t = "str"
    /\ HasKey(e.o, "listen_port")

HasInboundArray(d) == HasKey(d, "inbounds") /\ d["inbounds"].t = "arr"

\* save_config has run on the fetched document
Transformed == data # <<>> /\ pc # "Transforming"

\* C1: the written document equals the fetched one except at "inbounds",
\* which holds exactly the "mixed" entries, unchanged and in order; a document
\* of well-formed entries is written whenever the filesystem allows it.
C1_FilteredRewrite ==
    /\ config_file.state = "written" =>
          LET d   == data[1]
              out == config_file.content
          IN  /\ DOMAIN out = DOMAIN d
              /\ \A k \in DOMAIN d \ {"inbounds"} : out[k] = d[k]
              /\ out["inbounds"] = JArr(SelectSeq(d["inbounds"].a, IsMixed))
    /\ ( /\ Transformed
         /\ HasInboundArray(data[1])
         /\ \A i \in DOMAIN data[1]["inbounds"].a : WellFormed(data[1]["inbounds"].a[i])
         /\ err # "FileWriteError" )
       => config_file.state = "written"

C1_Witness ==
    /\ config_file.state = "written"
    /\ HasKey(data[1], "log")
    /\ LET a == data[1]["inbounds"].a
       IN  /\ Len(a) = 2
           /\ WellFormed(a[1]) /\ ~IsMixed(a[1])
           /\ WellFormed(a[2]) /\ IsMixed(a[2])
           /\ config_file.content["inbounds"] = JArr(<<a[2]>>)

EmptyDescriptors ==
    { "External = external, exec = \"" \o e \o "\", local-port = , args = \"run\", "
        \o "args = \"-c\", args = \"" \o d \o "/config.json\", address = " :
        e \in ExecPaths \cup {""}, d \in {"/home/user", "/tmp"} }

\* C2: the returned controller is the listen string and the JSON text of
\* listen_port of the last "mixed" entry, the default when there is none, and
\* a run without a "mixed" entry that completes shows empty fields.
C2_LastMixedWins ==
    controller_info # <<>> =>
        LET mixed == SelectSeq(data[1]["inbounds"].a, IsMixed)
            last  == mixed[Len(mixed)].o
            c     == controller_info[1]
        IN  /\ mixed = <<>> => c = [address |-> "", port |-> ""]
            /\ mixed # <<>> =>
                  /\ c.address = last["listen"].s
                  /\ c.port = ValueToString(last["listen_port"])
            /\ ( /\ Len(mixed) = 1
                 /\ last["listen"] = JStr("127.0.0.1")
                 /\ last["listen_port"] = JNum(7890) )
               => c = [address |-> "127.0.0.1", port |-> "7890"]
            /\ (mixed # <<>> /\ last["listen_port"] = JStr("7890"))
               => c.port = "\"7890\""
            /\ (mixed = <<>> /\ pc = "Done") => external_proxy[1] \in EmptyDescriptors

C2_Witness ==
    /\ pc = "Done"
    /\ LET a == data[1]["inbounds"].a
       IN  /\ Len(a) = 2
           /\ IsMixed(a[1]) /\ IsMixed(a[2])
           /\ a[1].o["listen"] # a[2].o["listen"]
           /\ controller_info[1].address = a[2].o["listen"].s

\* C3: a document without "inbounds" ends the run with MissingInbounds,
\* config.json as it was and no subprocess spawned.
C3_MissingInbounds ==
    (Transformed /\ ~HasKey(data[1], "inbounds")) =>
        /\ pc = "Failed"
        /\ err = "MissingInbounds"
        /\ exit_status = <<1>>
        /\ config_file \in {Absent, OldFile}
        /\ controller_info = <<>>
        /\ commands = <<>>
        /\ external_proxy = <<>>

C3_Witness ==
    /\ Transformed
    /\ ~HasKey(data[1], "inbounds")
    /\ HasKey(data[1], "log")
    /\ err = "MissingInbounds"
    /\ config_file = OldFile

Terminal == {"Done", "Failed"}

Successor(stage) ==
    CASE stage = "Start"        -> "Validating"
      [] stage = "Validating"   -> "Fetching"
      [] stage = "Fetching"     -> "Transforming"
      [] stage = "Transforming" -> "Describing"
      [] stage = "Describing"   -> "Done"

StageStep ==
    /\ pc \notin Terminal
    /\ pc' \in {Successor(pc), "Failed"}
    /\ pc' = "Fetching" => sub_url' # <<>>
    /\ pc' = "Transforming" => data' # <<>>
    /\ pc' = "Describing" => controller_info' # <<>> /\ config_file'.state = "written"
    /\ pc' = "Done" => external_proxy' # <<>> /\ exit_status' = <<0>>
    /\ pc' = "Failed" =>
          /\ exit_status' # <<>> /\ exit_status'[1] # 0
          /\ err' # ""
          /\ Len(stdout') + Len(stderr') > Len(stdout) + Len(stderr)
    /\ pc' \notin Terminal => exit_status' = <<>>

\* C4: every step moves from a stage that is not terminal to the next stage
\* of Start, Validating, Fetching, Transforming, Describing, Done, with the
\* previous stage's output in hand, or to Failed; Done exits with 0, Failed
\* with a non-zero status after printing a line.
C4_StageOrder == [][StageStep]_vars

C4_Witness ==
    /\ pc = "Done"
    /\ exit_status = <<0>>
    /\ sub_url # <<>> /\ data # <<>> /\ controller_info # <<>> /\ external_proxy # <<>>

DescriptorDisplayed == \E i \in DOMAIN stdout : stdout[i].text = DescriptorBanner

\* C5 as claimed: a run that fails has not written config.json and has not
\* displayed a descriptor.
C5_NoPartialSuccess ==
    pc = "Failed" => config_file.state # "written" /\ ~DescriptorDisplayed

\* C5 amended: a run that fails has displayed no descriptor; config.json is
\* as it was when the run fails before the write, created but not completed at
\* most when the write itself fails, and completely written when the run
\* fails in descriptor building.
C5_FailureArtifacts ==
    pc = "Failed" =>
        /\ ~DescriptorDisplayed
        /\ external_proxy = <<>>
        /\ err \in {"InvalidUrl", "UnsupportedScheme", "MissingHost", "MalformedUrl",
                    "FetchError", "MalformedSubscription", "MissingInbounds", "Panic"}
           => config_file \in {Absent, OldFile}
        /\ err = "FileWriteError" => config_file.state \in {"absent", "old", "truncated"}
        /\ err \in {"Io", "InstallFailed"} =>
              /\ config_file.state = "written"
              /\ config_file.content =
                    MapInsert(data[1], "inbounds",
                              JArr(SelectSeq(data[1]["inbounds"].a, IsMixed)))

C5_Witness ==
    /\ pc = "Failed"
    /\ err = "InstallFailed"
    /\ config_file.state = "written"

\* the lower-cased input has scheme http or https and an empty host
HostlessHttp(raw) ==
    LET s == ToLowercase(raw)
        e == SchemeEnd(s)
    IN  /\ e > 0
        /\ Slice(s, 1, e - 1) \in {Http, Https}
        /\ HostOf(AfterUserinfo(AuthorityOf(s, e + 1 + CountSlashes(s, e + 1)))) = <<>>

Validated == pc \notin {"Start", "Validating"}

\* C6: an http or https URL without a host is refused with MissingHost.
C6_MissingHost ==
    (Validated /\ HostlessHttp(cli_url)) => pc = "Failed" /\ err = "MissingHost"

C8_ControllerAndExecAlone ==
    pc = "Describing" =>
        \A e1, e2 \in Envs :
            LET r1 == make_external_config(controller_info[1], e1)
                r2 == make_external_config(controller_info[1], e2)
            IN  (r1.ok /\ r2.ok /\ r1.exec = r2.exec) => r1.output = r2.output

\* C8 amended: the descriptor is a function of the controller, the executable
\* path and the working directory, with the fields in the fixed order, whether
\* or not the install branch was taken.
C8_Deterministic ==
    /\ pc = "Describing" =>
          \A e1, e2 \in Envs :
              LET r1 == make_external_config(controller_info[1], e1)
                  r2 == make_external_config(controller_info[1], e2)
              IN  (r1.ok /\ r2.ok /\ r1.exec = r2.exec /\ r1.dir = r2.dir)
                  => r1.output = r2.output
    /\ pc = "Done" =>
          \E e \in ExecPaths \cup {""} :
              external_proxy[1] =
                  "External = external, "
                  \o "exec = \"" \o e \o "\", "
                  \o "local-port = " \o controller_info[1].port \o ", "
                  \o "args = \"run\", "
                  \o "args = \"-c\", "
                  \o "args = \"" \o PathDisplay(cwd[1]) \o "/config.json\", "
                  \o "address = " \o controller_info[1].address

C8_Witness ==
    /\ pc = "Done"
    /\ Len(commands) = 3
    /\ controller_info[1] = [address |-> "127.0.0.1", port |-> "7890"]
    /\ external_proxy[1] =
          "External = external, exec = \"/opt/homebrew/bin/sing-box\", "
          \o "local-port = 7890, args = \"run\", args = \"-c\", "
          \o "args = \"/home/user/config.json\", address = 127.0.0.1"

\* C9: brew runs only after a failed first which, at most once; a failed
\* install returns InstallFailed; a successful one is followed by one more
\* which; a descriptor is returned only when a which has succeeded.
C9_LocateBeforeDescriptor ==
    LET n == Len(commands)
        brews == {i \in 1..n : commands[i].cmd = BrewCmd}
    IN  /\ n <= 3
        /\ brews \subseteq {2}
        /\ n >= 1 => commands[1].cmd = WhichCmd
        /\ n >= 2 => ~commands[1].success /\ commands[2].cmd = BrewCmd
        /\ (n = 2 /\ pc = "Failed" /\ err = "InstallFailed") => ~commands[2].success
        /\ n = 3 => commands[2].success /\ commands[3].cmd = WhichCmd
        /\ pc = "Done" => \E i \in 1..n : commands[i].cmd = WhichCmd /\ commands[i].success

\* an entry the claim calls malformed
Malformed(e) == ~WellFormed(e)

\* an entry on which the loop panics
Panics(e) ==
    \/ e.t # "obj"
    \/ HasKey(e.o, "type") /\ e.o["type"].t # "str"
    \/ /\ IsMixed(e)
       /\ \/ ~HasKey(e.o, "listen")
          \/ e.o["listen"].t # "str"
          \/ ~HasKey(e.o, "listen_port")

Crashed ==
    /\ pc = "Failed"
    /\ err = "Panic"
    /\ stderr # <<>>
    /\ controller_info = <<>>
    /\ config_file \in {Absent, OldFile}

\* C10 as claimed: "inbounds" that is no array, or any entry with a field of
\* interest absent or mistyped, crashes save_config.
C10_MalformedCrashes ==
    ( /\ Transformed
      /\ HasKey(data[1], "inbounds")
      /\ \/ data[1]["inbounds"].t # "arr"
         \/ \E i \in DOMAIN data[1]["inbounds"].a : Malformed(data[1]["inbounds"].a[i]) )
    => Crashed

\* C10 amended: save_config crashes exactly when "inbounds" is no array or
\* some entry is no object, has a "type" that is no string, or is "mixed"
\* with "listen" absent or no string or "listen_port" absent; an entry
\* without "type", and one of another type, is dropped without a crash.
C10_PanicCases ==
    (Transformed /\ HasKey(data[1], "inbounds")) =>
        ( ( \/ data[1]["inbounds"].t # "arr"
            \/ \E i \in DOMAIN data[1]["inbounds"].a : Panics(data[1]["inbounds"].a[i]) )
          <=> Crashed )

C10_Witness ==
    /\ Crashed
    /\ HasInboundArray(data[1])
    /\ LET a == data[1]["inbounds"].a
       IN  /\ Len(a) = 2
           /\ IsMixed(a[1]) /\ WellFormed(a[1])
           /\ IsMixed(a[2]) /\ ~HasKey(a[2].o, "listen")

====
